---- MODULE Spec2Model ----
(***************************************************************************)
(* Model of examples/Keras_ResNet50.py: the command-line options, the      *)
(* CudaProfileCallback, get_callbacks, run_model driving the framework's   *)
(* predict / fit_generator loops, and random_image_generator.              *)
(***************************************************************************)
EXTENDS Integers, Sequences, FiniteSets, TLC

\* ------------------------------------------------------------------ bounds
MaxEpochs == 2
MaxSteps == 3
MaxBatchSize == 2
MaxClasses == 2
MaxBatches == 3
StreamPeriod == 4

\* ------------------------------------------------------- program constants
num_classes == 15
DefaultNvprofEpoch == 1
DefaultNvprofStart == 4
DefaultNvprofStop == 9
DefaultNTensors == -1
DefaultLb == 1
PredictSteps == 1
TrainBatchSize == 1
Channels == 3
HistogramFreq == 1
Float32Significand == 24

VARIABLES
    args,         \* the parsed command line (argparse Namespace)
    pc,           \* position of the main thread inside run_model / the fit loop
    session,      \* the session handed to K.set_session, or NoValue
    resnet50,     \* the model object, or NoValue
    random_generator, \* the generator object run_model built, or NoValue
    predict_calls,    \* calls of resnet50.predict, in order
    fit_calls,        \* calls of resnet50.fit_generator, in order
    get_callbacks_calls, \* number of calls of get_callbacks
    callbacks,    \* the callback objects living inside the running fit loop
    epoch,        \* fit loop: the epoch index
    batch,        \* fit loop: the batch index inside the epoch
    profiler_log, \* every cudaProfilerStart/Stop call, with the loop position
    profiling,    \* whether the CUDA profiler is collecting
    gen_args,     \* random_image_generator's arguments (the same for every run)
    gen,          \* per run: the generator's frame (its locals and position)
    rng,          \* per run: the state of the np.random source
    requests      \* per run: how many times the consumer has called next()

vars == <<args, pc, session, resnet50, random_generator, predict_calls,
          fit_calls, get_callbacks_calls, callbacks, epoch, batch,
          profiler_log, profiling, gen_args, gen, rng, requests>>

genVars == <<gen_args, gen, rng, requests>>

runVars == <<args, pc, session, resnet50, random_generator, predict_calls,
             fit_calls, get_callbacks_calls, callbacks, epoch, batch,
             profiler_log, profiling>>

NoValue == [kind |-> "None"]

\* ---------------------------------------------------------- command line
\* argparse accepts every integer; the sets below hold in-range, boundary
\* and out-of-range values of each option.
EpochValues == 0..MaxEpochs
StepValues == 1..MaxSteps
ImageSizeValues == {-1, 0, 1}
NvprofEpochValues == 0..(MaxEpochs + 1)
NvprofBatchValues == (-1)..MaxSteps
InferenceBatchValues == {1, 2}
LmsTunables == {<<DefaultNTensors, DefaultLb>>, <<20, 30>>}

LmsOptions ==
    {[lms |-> FALSE, n_tensors |-> DefaultNTensors, lb |-> DefaultLb]}
    \cup {[lms |-> TRUE, n_tensors |-> t[1], lb |-> t[2]] : t \in LmsTunables}

NvprofOptions ==
    {[nvprof |-> FALSE, nvprof_epoch |-> DefaultNvprofEpoch,
      nvprof_start |-> DefaultNvprofStart, nvprof_stop |-> DefaultNvprofStop]}
    \cup {[nvprof |-> TRUE, nvprof_epoch |-> e, nvprof_start |-> b, nvprof_stop |-> c] :
            e \in NvprofEpochValues, b \in NvprofBatchValues, c \in NvprofBatchValues}

\* The Namespace parse_args returns.  An option that is never read under the
\* chosen flags keeps its default.
Namespace(e, st, sz, l, n, tb, inf, ibs) ==
    [epochs |-> e, steps |-> st, image_size |-> sz,
     lms |-> l.lms, n_tensors |-> l.n_tensors, lb |-> l.lb,
     nvprof |-> n.nvprof, nvprof_epoch |-> n.nvprof_epoch,
     nvprof_start |-> n.nvprof_start, nvprof_stop |-> n.nvprof_stop,
     tensorboard |-> tb, inference_only |-> inf, inference_batch_size |-> ibs]

\* The parser's defaults (lines 155-210).
DefaultArgs ==
    [epochs |-> 1, steps |-> 10, image_size |-> 500,
     lms |-> FALSE, n_tensors |-> DefaultNTensors, lb |-> DefaultLb,
     nvprof |-> FALSE, nvprof_epoch |-> DefaultNvprofEpoch,
     nvprof_start |-> DefaultNvprofStart, nvprof_stop |-> DefaultNvprofStop,
     tensorboard |-> FALSE, inference_only |-> FALSE, inference_batch_size |-> 1]

\* ---------------------------------------------------- CudaProfileCallback
CudaProfileCallback(profile_epoch, profile_batch_start, profile_batch_end) ==
    [kind |-> "CudaProfileCallback",
     _epoch |-> profile_epoch - 1,
     _start |-> profile_batch_start,
     _end |-> profile_batch_end,
     epoch_keeper |-> 0]

\* on_epoch_begin that does not record the epoch.
on_epoch_begin_NotRecorded(cb, e) == cb

on_epoch_begin(cb, e) ==
    IF cb.kind = "CudaProfileCallback" THEN [cb EXCEPT !.epoch_keeper = e] ELSE cb

\* on_batch_begin with its two tests in the other order.
on_batch_begin_StopFirst(cb, b) ==
    IF cb.kind = "CudaProfileCallback"
    THEN (IF b = cb._end /\ cb.epoch_keeper = cb._epoch THEN <<"stop">> ELSE <<>>)
         \o (IF b = cb._start /\ cb.epoch_keeper = cb._epoch THEN <<"start">> ELSE <<>>)
    ELSE <<>>

\* The profiler calls on_batch_begin makes, in the order it makes them.
on_batch_begin(cb, b) ==
    IF cb.kind = "CudaProfileCallback"
    THEN (IF b = cb._start /\ cb.epoch_keeper = cb._epoch THEN <<"start">> ELSE <<>>)
         \o (IF b = cb._end /\ cb.epoch_keeper = cb._epoch THEN <<"stop">> ELSE <<>>)
    ELSE <<>>

\* ------------------------------------------------------------ get_callbacks
TensorBoard == [kind |-> "TensorBoard", histogram_freq |-> HistogramFreq]

LMSKerasCallback(n, l, names) ==
    [kind |-> "LMSKerasCallback", n_tensors |-> n, lb |-> l,
     starting_op_names |-> names]

\* get_callbacks appending the LMS callback before the profiling callback.
get_callbacks_LmsFirst(a) ==
    (IF a.tensorboard THEN <<TensorBoard>> ELSE <<>>)
    \o (IF a.lms
        THEN <<LMSKerasCallback(a.n_tensors, a.lb, <<"conv1_bn/cond/pred_id">>)>>
        ELSE <<>>)
    \o (IF a.nvprof
        THEN <<CudaProfileCallback(a.nvprof_epoch, a.nvprof_start, a.nvprof_stop)>>
        ELSE <<>>)

get_callbacks(a) ==
    (IF a.tensorboard THEN <<TensorBoard>> ELSE <<>>)
    \o (IF a.nvprof
        THEN <<CudaProfileCallback(a.nvprof_epoch, a.nvprof_start, a.nvprof_stop)>>
        ELSE <<>>)
    \o (IF a.lms
        THEN <<LMSKerasCallback(a.n_tensors, a.lb, <<"conv1_bn/cond/pred_id">>)>>
        ELSE <<>>)

\* ------------------------------------------------------- number formats
\* A float64 is held as an integer count of 2^-26 units.  Every value the
\* model computes is such a multiple below 2^31, so it is exactly
\* representable in float64 and the float64 sums and products below are
\* exact; only the store into the float32 batch array rounds.
One == 2^26

RECURSIVE BitLen(_)
BitLen(n) == IF n = 0 THEN 0 ELSE 1 + BitLen(n \div 2)

\* Round a magnitude to a float32 significand, ties to even.
RoundMagnitude(m) ==
    IF BitLen(m) <= Float32Significand
    THEN m
    ELSE LET step == 2^(BitLen(m) - Float32Significand)
             q == m \div step
             r == m % step
         IN IF 2 * r > step \/ (2 * r = step /\ q % 2 = 1)
            THEN (q + 1) * step
            ELSE q * step

\* The conversion of a float64 to the element type of x (dtype=np.float32).
float32(v) == IF v < 0 THEN 0 - RoundMagnitude(0 - v) ELSE RoundMagnitude(v)

\* ------------------------------------------------------------- np.random
\* The random source is a deterministic function of its state: the state is
\* the (periodic) stream of raw words it will hand out next.
RawValues == {0, 1, 2}
SeedSpace == [1..StreamPeriod -> RawValues]

RawAt(s, k) == s[(k % Len(s)) + 1]

Advance(s, n) == [i \in 1..Len(s) |-> s[((i - 1 + n) % Len(s)) + 1]]

\* np.random.random: a float64 in [0, 1).
random_sample(raw) == (raw * One) \div Cardinality(RawValues)

\* np.random.normal(loc=0, scale=1.): a float64 of either sign.
normal(raw) == (2 * raw + 1 - Cardinality(RawValues)) * (One \div 4) - raw

\* np.random.randint(low, high): an integer in [low, high).
randint(raw, low, high) == low + (raw % (high - low))

\* Every run drawing from one and the same random source.
RandomStateShared(r) == 1

\* The random source a run draws from: each run of the program has its own
\* np.random module state.
RandomState(r) == r

\* ------------------------------------------------ tf.keras.utils / numpy
\* to_categorical setting the entry after the label's.
to_categorical_OffByOne(y, n) ==
    [i \in DOMAIN y |-> [j \in 0..(n - 1) |-> IF j = (y[i] + 1) % n THEN One ELSE 0]]

\* to_categorical(y, num_classes): one row of num_classes entries per label.
to_categorical(y, n) ==
    [i \in DOMAIN y |-> [j \in 0..(n - 1) |-> IF j = y[i] THEN One ELSE 0]]

\* np.argmax: the first index holding the largest entry.
argmax(row) ==
    CHOOSE j \in DOMAIN row :
        /\ \A k \in DOMAIN row : row[k] <= row[j]
        /\ \A k \in DOMAIN row : k < j => row[k] < row[j]

\* -------------------------------------------------- random_image_generator
\* The two invocations the determinism claim compares.
Runs == {1, 2}

Size(shape) == shape[1] * shape[2] * shape[3]

ShapeValues == {<<1, 1, 1>>, <<1, 1, Channels>>}

GenArgSpace == [batch_size : 1..MaxBatchSize, num_classes : 1..MaxClasses,
                input_shape : ShapeValues]

\* A generator object whose body has not started.
Created == [pc |-> "created", templates |-> <<>>, random_data |-> <<>>,
            y |-> <<>>, x_array |-> <<>>, y_array |-> <<>>, yielded |-> 0]

\* Lines 93-94, run once when the body starts.
Construct(a, g, s) ==
    LET n == a.num_classes
        sz == Size(a.input_shape)
    IN [frame |-> [g EXCEPT
                     !.templates = [c \in 0..(n - 1) |-> [p \in 0..(sz - 1) |->
                                       2 * n * random_sample(RawAt(s, c * sz + p))]],
                     !.random_data = [p \in 0..(sz - 1) |->
                                       normal(RawAt(s, n * sz + p))]],
        rng |-> Advance(s, n * sz + sz)]

\* A loop that ends after two batches.
LoopCondTwoBatches(g) == g.yielded < 2

\* Line 95.
LoopCond(g) == TRUE

\* The loop body with the two random generations moved inside the loop.
LoopBodyRedrawing(a, g, s) ==
    LET sz == Size(a.input_shape)
        n == a.num_classes
        t == [c \in 0..(n - 1) |-> [p \in 0..(sz - 1) |->
                 2 * n * random_sample(RawAt(s, c * sz + p))]]
        d == [p \in 0..(sz - 1) |-> normal(RawAt(s, n * sz + p))]
        s2 == Advance(s, n * sz + sz)
        y == [i \in 0..(a.batch_size - 1) |-> randint(RawAt(s2, i), 0, n)]
        x == [i \in 0..(a.batch_size - 1) |-> [p \in 0..(sz - 1) |->
                 float32(t[y[i]][p] + d[p])]]
    IN [frame |-> [g EXCEPT !.pc = "suspended", !.templates = t, !.random_data = d,
                            !.y = y, !.x_array = x,
                            !.y_array = to_categorical(y, n),
                            !.yielded = @ + 1],
        rng |-> Advance(s2, a.batch_size)]

\* Lines 96-102: one pass of the loop body, up to and including the yield.
LoopBody(a, g, s) ==
    LET sz == Size(a.input_shape)
        y == [i \in 0..(a.batch_size - 1) |-> randint(RawAt(s, i), 0, a.num_classes)]
        x == [i \in 0..(a.batch_size - 1) |-> [p \in 0..(sz - 1) |->
                 float32(g.templates[y[i]][p] + g.random_data[p])]]
    IN [frame |-> [g EXCEPT !.pc = "suspended", !.y = y, !.x_array = x,
                            !.y_array = to_categorical(y, a.num_classes),
                            !.yielded = @ + 1],
        rng |-> Advance(s, a.batch_size)]

\* Resume the body at the top of the while loop.
Resume(a, g, s) ==
    IF LoopCond(g) THEN LoopBody(a, g, s)
    ELSE [frame |-> [g EXCEPT !.pc = "finished"], rng |-> s]

GenIdle ==
    /\ gen_args = [batch_size |-> 1, num_classes |-> 1, input_shape |-> <<1, 1, 1>>]
    /\ gen = [r \in Runs |-> Created]
    /\ rng = [r \in Runs |-> [i \in 1..StreamPeriod |-> 0]]
    /\ requests = [r \in Runs |-> 0]

\* The first next(): the body runs from its first line to the first yield.
FirstNext(r) ==
    /\ gen[r].pc = "created"
    /\ requests[r] < MaxBatches
    /\ requests' = [requests EXCEPT ![r] = @ + 1]
    /\ LET c == Construct(gen_args, gen[r], rng[RandomState(r)])
           out == Resume(gen_args, c.frame, c.rng)
       IN /\ gen' = [gen EXCEPT ![r] = out.frame]
          /\ rng' = [rng EXCEPT ![RandomState(r)] = out.rng]
    /\ UNCHANGED gen_args
    /\ UNCHANGED runVars

\* Every later next(): the body resumes after the yield; a finished generator
\* answers StopIteration and stays as it is.
LaterNext(r) ==
    /\ gen[r].pc # "created"
    /\ requests[r] < MaxBatches
    /\ requests' = [requests EXCEPT ![r] = @ + 1]
    /\ LET out == IF gen[r].pc = "finished"
                  THEN [frame |-> gen[r], rng |-> rng[RandomState(r)]]
                  ELSE Resume(gen_args, gen[r], rng[RandomState(r)])
       IN /\ gen' = [gen EXCEPT ![r] = out.frame]
          /\ rng' = [rng EXCEPT ![RandomState(r)] = out.rng]
    /\ UNCHANGED gen_args
    /\ UNCHANGED runVars

\* ---------------------------------------------------------------- run_model
InputShape(a) == <<a.image_size, a.image_size, Channels>>

\* The batch size ignoring the mode, either way.
BatchSizeAlwaysTraining(a) == TrainBatchSize

BatchSizeAlwaysInference(a) == a.inference_batch_size

BatchSizeOf(a) == IF ~a.inference_only THEN TrainBatchSize ELSE a.inference_batch_size

Init ==
    /\ \E e \in EpochValues, st \in StepValues, sz \in ImageSizeValues,
          l \in LmsOptions, n \in NvprofOptions, tb \in BOOLEAN, inf \in BOOLEAN,
          ibs \in InferenceBatchValues :
            args = Namespace(e, st, sz, l, n, tb, inf, ibs)
    /\ pc = "main"
    /\ session = NoValue
    /\ resnet50 = NoValue
    /\ random_generator = NoValue
    /\ predict_calls = <<>>
    /\ fit_calls = <<>>
    /\ get_callbacks_calls = 0
    /\ callbacks = <<>>
    /\ epoch = 0
    /\ batch = 0
    /\ profiler_log = <<>>
    /\ profiling = FALSE
    /\ GenIdle

\* run_model, lines 130-133: the session is created before anything else.
SetSession ==
    /\ pc = "main"
    /\ session' = [kind |-> "Session",
                   memory_optimization |-> "SCHEDULING_HEURISTICS",
                   dependency_optimization |-> "OFF"]
    /\ pc' = "session"
    /\ UNCHANGED <<args, resnet50, random_generator, predict_calls, fit_calls,
                   get_callbacks_calls, callbacks, epoch, batch, profiler_log,
                   profiling>>
    /\ UNCHANGED genVars

\* run_model, lines 135-143: the architecture library builds the model.
BuildModel ==
    /\ pc = "session"
    /\ args.image_size > 0
    /\ resnet50' = [kind |-> "ResNet50", weights |-> "None", include_top |-> TRUE,
                    input_shape |-> InputShape(args), classes |-> num_classes,
                    compiled |-> FALSE]
    /\ pc' = "built"
    /\ UNCHANGED <<args, session, random_generator, predict_calls, fit_calls,
                   get_callbacks_calls, callbacks, epoch, batch, profiler_log,
                   profiling>>
    /\ UNCHANGED genVars

\* The script itself checks nothing; a shape with a non-positive side is
\* rejected only by the architecture library, from inside the constructor
\* call, and the exception ends the program.
BuildModelRaises ==
    /\ pc = "session"
    /\ args.image_size <= 0
    /\ pc' = "error"
    /\ UNCHANGED <<args, session, resnet50, random_generator, predict_calls,
                   fit_calls, get_callbacks_calls, callbacks, epoch, batch,
                   profiler_log, profiling>>
    /\ UNCHANGED genVars

\* run_model, line 144.
CompileModel ==
    /\ pc = "built"
    /\ resnet50' = [resnet50 EXCEPT !.compiled = TRUE]
    /\ pc' = "compiled"
    /\ UNCHANGED <<args, session, random_generator, predict_calls, fit_calls,
                   get_callbacks_calls, callbacks, epoch, batch, profiler_log,
                   profiling>>
    /\ UNCHANGED genVars

\* run_model, lines 145-146: the generator object (its body has not run yet).
MakeGenerator ==
    /\ pc = "compiled"
    /\ random_generator' = [kind |-> "generator",
                            batch_size |-> BatchSizeOf(args),
                            num_classes |-> num_classes,
                            input_shape |-> InputShape(args),
                            requested |-> 0]
    /\ pc' = "generator"
    /\ UNCHANGED <<args, session, resnet50, predict_calls, fit_calls,
                   get_callbacks_calls, callbacks, epoch, batch, profiler_log,
                   profiling>>
    /\ UNCHANGED genVars

\* run_model, lines 147-148: inference consumes `steps` batches and returns.
Predict ==
    /\ pc = "generator"
    /\ args.inference_only
    /\ predict_calls' = Append(predict_calls,
                               [steps |-> PredictSteps,
                                batch_size |-> random_generator.batch_size])
    /\ random_generator' = [random_generator EXCEPT !.requested = @ + PredictSteps]
    /\ pc' = "done"
    /\ UNCHANGED <<args, session, resnet50, fit_calls, get_callbacks_calls,
                   callbacks, epoch, batch, profiler_log, profiling>>
    /\ UNCHANGED genVars

\* run_model, lines 149-151: get_callbacks is evaluated as an argument of
\* fit_generator, which then enters its loop.
FitGenerator ==
    /\ pc = "generator"
    /\ ~args.inference_only
    /\ get_callbacks_calls' = get_callbacks_calls + 1
    /\ callbacks' = get_callbacks(args)
    /\ fit_calls' = Append(fit_calls,
                           [steps_per_epoch |-> args.steps, epochs |-> args.epochs,
                            callbacks |-> get_callbacks(args),
                            batch_size |-> random_generator.batch_size])
    /\ epoch' = 0
    /\ batch' = 0
    /\ pc' = "epoch_begin"
    /\ UNCHANGED <<args, session, resnet50, random_generator, predict_calls,
                   profiler_log, profiling>>
    /\ UNCHANGED genVars

\* ------------------------------------------------- the framework's fit loop
\* fit_generator calls on_epoch_begin(epoch) on every callback, then for each
\* batch of the epoch on_batch_begin(batch) and takes one batch of data.
Last(f) == f[Len(f)]

EpochBegin ==
    /\ pc = "epoch_begin"
    /\ epoch < Last(fit_calls).epochs
    /\ callbacks' = [i \in 1..Len(callbacks) |-> on_epoch_begin(callbacks[i], epoch)]
    /\ batch' = 0
    /\ pc' = IF Last(fit_calls).steps_per_epoch > 0 THEN "batch_begin" ELSE "epoch_end"
    /\ UNCHANGED <<args, session, resnet50, random_generator, predict_calls,
                   fit_calls, get_callbacks_calls, epoch, profiler_log, profiling>>
    /\ UNCHANGED genVars

RECURSIVE Signals(_, _, _)
Signals(cbs, i, b) ==
    IF i > Len(cbs) THEN <<>> ELSE on_batch_begin(cbs[i], b) \o Signals(cbs, i + 1, b)

RECURSIVE AfterSignals(_, _)
AfterSignals(running, sig) ==
    IF sig = <<>> THEN running ELSE AfterSignals(Head(sig) = "start", Tail(sig))

BatchBegin ==
    /\ pc = "batch_begin"
    /\ LET sig == Signals(callbacks, 1, batch)
       IN /\ profiler_log' = profiler_log \o
                [i \in 1..Len(sig) |-> [signal |-> sig[i], epoch |-> epoch, batch |-> batch]]
          /\ profiling' = AfterSignals(profiling, sig)
    /\ random_generator' = [random_generator EXCEPT !.requested = @ + 1]
    /\ batch' = batch + 1
    /\ pc' = IF batch + 1 < Last(fit_calls).steps_per_epoch THEN "batch_begin" ELSE "epoch_end"
    /\ UNCHANGED <<args, session, resnet50, predict_calls, fit_calls,
                   get_callbacks_calls, callbacks, epoch>>
    /\ UNCHANGED genVars

EpochEnd ==
    /\ pc = "epoch_end"
    /\ epoch' = epoch + 1
    /\ pc' = "epoch_begin"
    /\ UNCHANGED <<args, session, resnet50, random_generator, predict_calls,
                   fit_calls, get_callbacks_calls, callbacks, batch, profiler_log,
                   profiling>>
    /\ UNCHANGED genVars

FitReturns ==
    /\ pc = "epoch_begin"
    /\ epoch >= Last(fit_calls).epochs
    /\ pc' = "done"
    /\ UNCHANGED <<args, session, resnet50, random_generator, predict_calls,
                   fit_calls, get_callbacks_calls, callbacks, epoch, batch,
                   profiler_log, profiling>>
    /\ UNCHANGED genVars

Next ==
    \/ SetSession
    \/ BuildModel
    \/ BuildModelRaises
    \/ CompileModel
    \/ MakeGenerator
    \/ Predict
    \/ FitGenerator
    \/ EpochBegin
    \/ BatchBegin
    \/ EpochEnd
    \/ FitReturns

Spec == Init /\ [][Next]_vars

\* Two runs of the generator with the same arguments, each started from the
\* same state of its random source.
GenInit ==
    /\ gen_args \in GenArgSpace
    /\ gen = [r \in Runs |-> Created]
    /\ \E seed \in SeedSpace : rng = [r \in Runs |-> seed]
    /\ requests = [r \in Runs |-> 0]
    /\ args = DefaultArgs
    /\ pc = "main"
    /\ session = NoValue
    /\ resnet50 = NoValue
    /\ random_generator = NoValue
    /\ predict_calls = <<>>
    /\ fit_calls = <<>>
    /\ get_callbacks_calls = 0
    /\ callbacks = <<>>
    /\ epoch = 0
    /\ batch = 0
    /\ profiler_log = <<>>
    /\ profiling = FALSE

GenNext ==
    \/ \E r \in Runs : FirstNext(r)
    \/ \E r \in Runs : LaterNext(r)

SpecGen == GenInit /\ [][GenNext]_vars

\* ================================================================= claims
Trained == fit_calls # <<>>

StartEntries == {i \in DOMAIN profiler_log : profiler_log[i].signal = "start"}

StopEntries == {i \in DOMAIN profiler_log : profiler_log[i].signal = "stop"}

AtConfigured(i, b) ==
    /\ profiler_log[i].epoch = args.nvprof_epoch - 1
    /\ profiler_log[i].batch = b

\* The run contains the batch b of the profiling epoch.
RunContains(b) ==
    /\ args.nvprof_epoch \in 1..args.epochs
    /\ b \in 0..(args.steps - 1)

\* C1 as stated: a finished training run with the profiling callback has
\* signalled start exactly once, at the configured (epoch, start batch), and
\* stop exactly once, at the configured (epoch, stop batch).
C1_ExactlyOnceAnyRun ==
    (pc = "done" /\ Trained /\ args.nvprof) =>
        /\ Cardinality(StartEntries) = 1
        /\ Cardinality(StopEntries) = 1
        /\ \A i \in StartEntries : AtConfigured(i, args.nvprof_start)
        /\ \A i \in StopEntries : AtConfigured(i, args.nvprof_stop)

\* C1 amended: start is signalled at most once and only at the configured
\* (epoch nvprof_epoch-1, start batch), stop at most once and only at the
\* configured (epoch, stop batch); a finished training run has signalled
\* start (stop) exactly once when it contains that batch of that epoch, and
\* never when it does not.
C1_OnlyAtConfiguredOnceIfReached ==
    /\ Cardinality(StartEntries) <= 1
    /\ Cardinality(StopEntries) <= 1
    /\ \A i \in StartEntries : AtConfigured(i, args.nvprof_start)
    /\ \A i \in StopEntries : AtConfigured(i, args.nvprof_stop)
    /\ (pc = "done" /\ Trained /\ args.nvprof) =>
        /\ Cardinality(StartEntries) = (IF RunContains(args.nvprof_start) THEN 1 ELSE 0)
        /\ Cardinality(StopEntries) = (IF RunContains(args.nvprof_stop) THEN 1 ELSE 0)

C1_Witness ==
    /\ pc = "done"
    /\ args.nvprof
    /\ args.epochs = MaxEpochs
    /\ args.nvprof_epoch = MaxEpochs
    /\ Cardinality(StartEntries) = 1
    /\ Cardinality(StopEntries) = 1
    /\ args.nvprof_start < args.nvprof_stop

\* C2: in inference-only mode fit_generator is never called, and the one
\* predict call asks for one step from a generator whose batch size is
\* inference_batch_size.
C2_InferenceOnly ==
    args.inference_only =>
        /\ fit_calls = <<>>
        /\ Len(predict_calls) <= 1
        /\ random_generator # NoValue =>
               random_generator.batch_size = args.inference_batch_size
        /\ pc = "done" =>
            /\ predict_calls = <<[steps |-> 1,
                                  batch_size |-> args.inference_batch_size]>>
            /\ random_generator.requested = 1

C2_Witness ==
    /\ pc = "done"
    /\ args.inference_only
    /\ args.inference_batch_size > 1
    /\ args.epochs > 1
    /\ predict_calls # <<>>

InvalidConfiguration == args.image_size <= 0

\* C3 as stated: from an invalid configuration no session, model or
\* generator is ever created.
C3_FailFastBeforeAllocation ==
    InvalidConfiguration =>
        /\ session = NoValue
        /\ resnet50 = NoValue
        /\ random_generator = NoValue

ProfilingEpochEnded ==
    /\ Trained
    /\ \/ pc = "done"
       \/ epoch > args.nvprof_epoch - 1
       \/ epoch = args.nvprof_epoch - 1 /\ pc = "epoch_end"

StopAfterStart ==
    \A i \in StopEntries : \E j \in StartEntries : j < i

\* C8 as stated: for every configured range, no stop is signalled without
\* an earlier start, and the profiler is not collecting once the profiling
\* epoch has ended.
C8_WellOrderedAnyRange ==
    /\ StopAfterStart
    /\ ProfilingEpochEnded => ~profiling

\* C8 amended: when 0 <= nvprof_start <= nvprof_stop, stop is never
\* signalled without an earlier start (in the same batch: start first); when
\* moreover nvprof_stop < steps, the profiler is not collecting once the
\* profiling epoch has ended.
C8_WellOrderedForOrderedRange ==
    (0 <= args.nvprof_start /\ args.nvprof_start <= args.nvprof_stop) =>
        /\ StopAfterStart
        /\ args.nvprof_stop < args.steps => (ProfilingEpochEnded => ~profiling)

C8_Witness ==
    /\ pc = "done"
    /\ args.nvprof
    /\ args.nvprof_start = args.nvprof_stop
    /\ profiler_log # <<>>
    /\ profiler_log[1].signal = "start"
    /\ Len(profiler_log) = 2
    /\ ~profiling

Rank(kind) ==
    CASE kind = "TensorBoard" -> 1
      [] kind = "CudaProfileCallback" -> 2
      [] kind = "LMSKerasCallback" -> 3
      [] OTHER -> 0

\* C9: the list handed to the fit loop holds the logging callback iff
\* tensorboard, the profiling callback built from nvprof_epoch/start/stop
\* iff nvprof, the LMS callback built from n_tensors, lb and the fixed
\* starting op name iff lms, each at most once, in that order.
C9_CallbackList ==
    \A c \in DOMAIN fit_calls :
        LET cbs == fit_calls[c].callbacks
        IN /\ args.tensorboard <=> \E i \in DOMAIN cbs : cbs[i].kind = "TensorBoard"
           /\ args.nvprof <=> \E i \in DOMAIN cbs : cbs[i].kind = "CudaProfileCallback"
           /\ args.lms <=> \E i \in DOMAIN cbs : cbs[i].kind = "LMSKerasCallback"
           /\ \A i \in DOMAIN cbs :
                /\ Rank(cbs[i].kind) > 0
                /\ cbs[i].kind = "CudaProfileCallback" =>
                     /\ cbs[i]._epoch = args.nvprof_epoch - 1
                     /\ cbs[i]._start = args.nvprof_start
                     /\ cbs[i]._end = args.nvprof_stop
                /\ cbs[i].kind = "LMSKerasCallback" =>
                     /\ cbs[i].n_tensors = args.n_tensors
                     /\ cbs[i].lb = args.lb
                     /\ cbs[i].starting_op_names = <<"conv1_bn/cond/pred_id">>
           /\ \A i, j \in DOMAIN cbs : i < j => Rank(cbs[i].kind) < Rank(cbs[j].kind)
           /\ (~args.tensorboard /\ ~args.nvprof /\ ~args.lms) => cbs = <<>>

C9_Witness ==
    /\ Trained
    /\ args.tensorboard /\ args.nvprof /\ args.lms
    /\ args.n_tensors # DefaultNTensors
    /\ Len(fit_calls[1].callbacks) = 3

Labels == 0..(gen_args.num_classes - 1)

Items == 0..(gen_args.batch_size - 1)

Pixels == 0..(Size(gen_args.input_shape) - 1)

ExactSum(g, i) == [p \in Pixels |-> g.templates[g.y[i]][p] + g.random_data[p]]

StoredSum(g, i) == [p \in Pixels |-> float32(g.templates[g.y[i]][p] + g.random_data[p])]

\* C4 as stated: every image of every yielded batch equals
\* templates[label] + noise, with the label in [0, num_classes).
C4_ImagesEqualExactSum ==
    \A r \in Runs : gen[r].pc = "suspended" =>
        \A i \in Items :
            /\ gen[r].y[i] \in Labels
            /\ gen[r].x_array[i] = ExactSum(gen[r], i)

\* C4 amended: the templates and the noise are fixed when the body starts
\* and never change afterwards; every image of every yielded batch equals
\* templates[label] + noise converted to float32, the element type of the
\* batch array, with the label in [0, num_classes) and the same noise for
\* every item of every batch.
C4_ImagesEqualFloat32Sum ==
    [][\A r \in Runs : gen'[r].pc = "suspended" =>
          /\ DOMAIN gen'[r].x_array = Items
          /\ \A i \in Items :
                /\ gen'[r].y[i] \in Labels
                /\ gen'[r].x_array[i] = StoredSum(gen'[r], i)
          /\ gen[r].pc = "suspended" =>
                /\ gen'[r].templates = gen[r].templates
                /\ gen'[r].random_data = gen[r].random_data]_vars

C4_Witness ==
    \E r \in Runs :
        /\ gen[r].pc = "suspended"
        /\ gen[r].yielded >= 2
        /\ gen_args.num_classes >= 2
        /\ \E i \in Items : gen[r].x_array[i] # ExactSum(gen[r], i)

OneHot(row, n) ==
    /\ DOMAIN row = 0..(n - 1)
    /\ \A j \in DOMAIN row : row[j] \in {0, One}
    /\ Cardinality({j \in DOMAIN row : row[j] = One}) = 1

\* C5: each row of a yielded label batch is a one-hot vector of length
\* num_classes whose argmax is the label sampled for the item, the label
\* whose template the item's image was built from.
C5_OneHotRoundTrip ==
    \A r \in Runs : gen[r].pc = "suspended" =>
        /\ DOMAIN gen[r].y_array = Items
        /\ \A i \in Items :
              /\ OneHot(gen[r].y_array[i], gen_args.num_classes)
              /\ argmax(gen[r].y_array[i]) = gen[r].y[i]
              /\ gen[r].x_array[i] =
                    [p \in Pixels |->
                        float32(gen[r].templates[argmax(gen[r].y_array[i])][p]
                                + gen[r].random_data[p])]

C5_Witness ==
    \E r \in Runs :
        /\ gen[r].pc = "suspended"
        /\ gen_args.batch_size >= 2
        /\ gen[r].y[0] # gen[r].y[1]
        /\ argmax(gen[r].y_array[1]) = 1
        /\ gen[r].templates[0] # gen[r].templates[1]

C7_EndlessForward ==
    [][\A r \in Runs :
          /\ requests'[r] = requests[r] + 1 =>
                /\ gen'[r].pc = "suspended"
                /\ gen'[r].yielded = gen[r].yielded + 1
          /\ requests'[r] = requests[r] => gen'[r] = gen[r]]_vars

C7_Witness ==
    \E r \in Runs :
        /\ gen[r].pc = "suspended"
        /\ gen[r].yielded = MaxBatches
        /\ requests[r] = MaxBatches

====
